---------------------------- MODULE Spec2Model ----------------------------
(***************************************************************************)
(* Model of the storyteller module (src/main.js): the per-session Page     *)
(* Directory and its broadcast relay over the "module.storyteller" socket  *)
(* channel, the active-type slot written on dialog close and read by the   *)
(* pre-creation hook, and the registration of sheet types with the host.   *)
(*                                                                         *)
(* Three specifications share the variables:                               *)
(*   Spec        the page synchronisation between sessions                 *)
(*   SpecTracked the same, with the history of the latest broadcast        *)
(*   SpecCreate  the type-selection bridge and the registration, which are *)
(*               local to one process and never touch the channel          *)
(***************************************************************************)
EXTENDS Integers, Sequences, FiniteSets, TLC

(***************************************************************************)
(* Bounds of the model and the small sets the inputs are drawn from.       *)
(***************************************************************************)
MaxEmits == 2
MaxCreates == 2
MaxTypeList == 6

Sessions == {"s1", "s2"}
\* document ids: "" is the default of the id parameter (main.js:107,128)
Ids == {"", "a"}
\* page numbers: 0 is the default of the page parameter
Pages == {0, 1, 2}
Actions == {"setPageToOpen", "other"}

\* JavaScript's undefined, as the value of a slot, an option or a lookup
Undefined == "undefined"
\* no document was looked up
NoId == "none"

VARIABLES
    pages,          \* pages[s]: the 'pages' client setting of session s, id -> page
    inbox,          \* inbox[s]: events of the channel not yet handled by session s
    emitCount,      \* number of game.socket.emit calls so far
    fx,             \* what the most recent handler did besides the above
    tracked,        \* history: the latest broadcast and who still has to handle it
    activeType,     \* game.StoryTeller.activeType
    types,          \* StoryTeller.types: key -> sheet class
    labels,         \* StoryTeller.labels: key -> label
    registered,     \* JournalEntry.registerSheet calls made so far
    documentTypes,  \* game.system.documentTypes.JournalEntry
    typeLabels,     \* CONFIG.JournalEntry.typeLabels
    options,        \* options of the latest preCreateJournalEntry call
    sinceClose,     \* history: preCreateJournalEntry calls since the last closeDialog
    swap,           \* the latest createJournalEntry call and its document
    last            \* history: last[s] maps an id to the page of the most recent
                    \* page-setting action session s applied for it

syncVars == <<pages, inbox, emitCount, fx, tracked>>
createVars == <<activeType, types, labels, registered, documentTypes, typeLabels,
                options, sinceClose, swap>>
vars == <<syncVars, createVars, last>>

(***************************************************************************)
(* Page Directory and Broadcast Relay                                      *)
(***************************************************************************)

\* registerSettings: 'pages' is a client setting with default {}
pagesDefault == [k \in {} |-> 0]

\* pages[id] = page on the object game.settings.get returned, then
\* game.settings.set of that object (the _replace and _drop variants, like
\* the other definitions named name_variant below, are slips the code could
\* have made; the properties are tested against them)
setPage_replace(dir, id, page) == [k \in {id} |-> page]
setPage_drop(dir, id, page) == dir
setPage(dir, id, page) ==
    [k \in (DOMAIN dir) \cup {id} |-> IF k = id THEN page ELSE dir[k]]

\* the guard of _setPageToOpen: TRUE when the handler returns at once
ignored_actionOnly(data) == data.action # "setPageToOpen"
ignored(data) == data.action # "setPageToOpen" \/ data.id = ""

\* the directory _setPageToOpen leaves behind
_setPageToOpen_clears(dir, data) ==
    IF ignored(data) THEN pagesDefault ELSE setPage(dir, data.id, data.page)
_setPageToOpen(dir, data) ==
    IF ignored(data) THEN dir ELSE setPage(dir, data.id, data.page)

\* "if (page !== 0)" of showStoryByIDToAll
syncsPage_always(page) == TRUE
syncsPage(page) == page # 0

\* "if (page !== 0)" of showStoryToPlayerOnly
storesPage(page) == page # 0

\* the event showStoryByIDToAll emits
emitted_page0(id, page) == [action |-> "setPageToOpen", id |-> id, page |-> 0]
emitted(id, page) == [action |-> "setPageToOpen", id |-> id, page |-> page]

\* game.socket.emit: the host relays the event to every other session
broadcast(box, s, msg) ==
    [r \in Sessions |-> IF r = s THEN box[r] ELSE Append(box[r], msg)]

\* whether game.journal.get(id) finds a document: the documents of the world
\* come and go outside this module, and none has the empty id
Found(id) == IF id = "" THEN {FALSE} ELSE BOOLEAN

\* a call on what game.journal.get returned: a TypeError when the document
\* was not found, as the result is undefined
callOn(found, what) == IF found THEN what ELSE "TypeError"

showStoryByIDToAll(s, id, page, found) ==
    /\ syncsPage(page) => emitCount < MaxEmits
    /\ fx' = [set |-> syncsPage(page), get |-> id, result |-> callOn(found, "show")]
    /\ IF syncsPage(page)
       THEN /\ emitCount' = emitCount + 1
            /\ inbox' = broadcast(inbox, s, emitted(id, page))
            /\ pages' = [pages EXCEPT ![s] = setPage(pages[s], id, page)]
       ELSE UNCHANGED <<emitCount, inbox, pages>>
    /\ UNCHANGED createVars

showStoryToPlayerOnly_emits(s, id, page, found) ==
    /\ emitCount < MaxEmits
    /\ fx' = [set |-> TRUE, get |-> id, result |-> callOn(found, "render")]
    /\ emitCount' = emitCount + 1
    /\ inbox' = broadcast(inbox, s, emitted(id, page))
    /\ pages' = [pages EXCEPT ![s] = setPage(pages[s], id, page)]
    /\ UNCHANGED createVars

showStoryToPlayerOnly(s, id, page, found) ==
    /\ fx' = [set |-> storesPage(page), get |-> id, result |-> callOn(found, "render")]
    /\ IF storesPage(page)
       THEN pages' = [pages EXCEPT ![s] = setPage(pages[s], id, page)]
       ELSE UNCHANGED pages
    /\ UNCHANGED <<inbox, emitCount, createVars>>

\* what the handler of the channel does to session s with event data
handle(s, data) ==
    /\ fx' = [set |-> ~ignored(data), get |-> NoId, result |-> "none"]
    /\ pages' = [pages EXCEPT ![s] = _setPageToOpen(pages[s], data)]

\* the socket listener of session s runs _setPageToOpen on the next event
\* another session emitted
Deliver(s) ==
    /\ inbox[s] # <<>>
    /\ handle(s, Head(inbox[s]))
    /\ inbox' = [inbox EXCEPT ![s] = Tail(inbox[s])]
    /\ UNCHANGED <<emitCount, createVars>>

\* the events any other sender may put on the channel
Foreign == [action : Actions, id : Ids, page : Pages]

\* the socket listener of session s runs _setPageToOpen on an event that
\* no showStoryByIDToAll call emitted
Receive(s, data) ==
    /\ handle(s, data)
    /\ UNCHANGED <<inbox, emitCount, createVars>>

(***************************************************************************)
(* History of the latest broadcast, kept by SpecTracked only: its id and   *)
(* page, and for each session the place of the event in the session's      *)
(* inbox (0 once the session has handled it, and for the session that      *)
(* emitted it). Any other page-setting action for the id ends the history. *)
(***************************************************************************)
Untracked == [on |-> FALSE, id |-> "", page |-> 0, pending |-> [r \in Sessions |-> 0]]

untrack(t, id) == IF t.on /\ t.id = id THEN Untracked ELSE t

trackEmit(s, id, page) ==
    [on |-> TRUE, id |-> id, page |-> page,
     pending |-> [r \in Sessions |-> IF r = s THEN 0 ELSE Len(inbox[r]) + 1]]

trackDeliver(t, s, m) ==
    IF ~t.on THEN t
    ELSE IF t.pending[s] = 1 THEN [t EXCEPT !.pending[s] = 0]
    ELSE LET u == IF t.pending[s] > 1 THEN [t EXCEPT !.pending[s] = @ - 1] ELSE t
         IN  IF ignored(m) THEN u ELSE untrack(u, m.id)

(***************************************************************************)
(* History of the page-setting actions, kept by SpecLast only: for each    *)
(* session and id the page of the latest one the session applied. A local  *)
(* call sets a page when its page is not 0, an event when its action is    *)
(* "setPageToOpen" and its id is not empty.                                *)
(***************************************************************************)
note(l, s, id, page) ==
    [l EXCEPT ![s] = [k \in (DOMAIN l[s]) \cup {id} |->
                         IF k = id THEN page ELSE l[s][k]]]

noteLocal(l, s, id, page) == IF page = 0 THEN l ELSE note(l, s, id, page)

noteRemote(l, s, data) ==
    IF data.action = "setPageToOpen" /\ data.id # ""
    THEN note(l, s, data.id, data.page)
    ELSE l

(***************************************************************************)
(* Type Registry and registration with the host                            *)
(***************************************************************************)

\* the type keys of the model; sort() orders them by their code units
Keys == {"addon", "base", "default", "story"}
KeyRank(k) ==
    CASE k = "addon" -> 1 [] k = "base" -> 2 [] k = "default" -> 3 [] k = "story" -> 4

\* a label key of the language files, and what game.i18n.localize makes of it
Label(l) == [key |-> l, localized |-> FALSE]
localize(l) == [l EXCEPT !.localized = TRUE]

\* static types and static labels of class StoryTeller
staticTypes == [k \in {"default", "story"} |->
                  IF k = "default" THEN "JournalSheet" ELSE "StorySheet"]
staticLabels == [k \in {"default", "story"} |->
                  IF k = "default" THEN Label("STORYTELLER.BaseJournalEntry")
                                   ELSE Label("STORYTELLER.StoryEntry")]

getDocumentTypes == types
getTypeLabels == labels

\* Object.keys(o) as a list
RECURSIVE keysOf(_)
keysOf(S) ==
    IF S = {} THEN <<>>
    ELSE LET k == CHOOSE x \in S : \A y \in S : KeyRank(y) <= KeyRank(x)
         IN  Append(keysOf(S \ {k}), k)

\* Array.prototype.sort() of a list of keys
RECURSIVE insert(_, _)
insert(list, k) ==
    IF list = <<>> THEN <<k>>
    ELSE IF KeyRank(k) < KeyRank(Head(list)) THEN <<k>> \o list
    ELSE <<Head(list)>> \o insert(Tail(list), k)
RECURSIVE sort(_)
sort(list) == IF list = <<>> THEN <<>> ELSE insert(sort(Tail(list)), Head(list))

\* foundry.utils.mergeObject(original, other): the keys of other overwrite
mergeObject(original, other) ==
    [k \in (DOMAIN original) \cup (DOMAIN other) |->
        IF k \in DOMAIN other THEN other[k] ELSE original[k]]

\* the loop of registerObjects: one registerSheet call per key but 'default'
registerSheets_all(reg, T, L) ==
    reg \cup {[key |-> k, sheet |-> T[k], label |-> localize(L[k])] : k \in DOMAIN T}
registerSheets(reg, T, L) ==
    reg \cup {[key |-> k, sheet |-> T[k], label |-> localize(L[k])] :
                k \in (DOMAIN T) \ {"default"}}

\* the known-type list registerObjects leaves behind
mergeTypeList(list, T) == sort(list \o keysOf(DOMAIN T))

\* the label table registerObjects leaves behind
mergeTypeLabels_localized(table, L) ==
    mergeObject(table, [k \in DOMAIN L |-> localize(L[k])])
mergeTypeLabels(table, L) == mergeObject(table, L)

\* the host's tables before the init hook has run
hostTypeList == <<"base">>
hostTypeLabels == [k \in {} |-> Label("")]

\* what registerAddonSheet is called with
AddonKeys == {"addon", "default", "story"}
AddonSheets == {"AddonSheet"}
AddonLabels == {Label("ADDON.Entry")}

registerAddonSheet(key, sheet, label) ==
    LET T == [k \in {key} |-> sheet]
        L == [k \in {key} |-> label]
    IN  /\ Len(documentTypes) < MaxTypeList
        /\ registered' = registerSheets(registered, T, L)
        /\ documentTypes' = mergeTypeList(documentTypes, T)
        /\ typeLabels' = mergeTypeLabels(typeLabels, L)
        /\ types' = mergeObject(types, T)
        /\ labels' = mergeObject(labels, L)
        /\ UNCHANGED <<activeType, options, sinceClose, swap, syncVars, last>>

(***************************************************************************)
(* Type-Selection Bridge                                                   *)
(***************************************************************************)

\* the values the select control of a dialog may hold
SelectValues == {"", "story", "default", "addon", "other"}
\* options.type as the host hands it to the preCreateJournalEntry hook
OptionTypes == {Undefined, "base", "story"}

\* the slot after the closeDialog hook: hasForm is whether the dialog's
\* element is in the document, hasSelect whether it holds a select control
closedType_keep(old, hasForm, hasSelect, value) ==
    IF hasForm /\ hasSelect THEN value ELSE old
closedType(old, hasForm, hasSelect, value) ==
    IF hasForm /\ hasSelect THEN value ELSE ""

closeDialog(hasForm, hasSelect, value) ==
    /\ activeType' = closedType(activeType, hasForm, hasSelect, value)
    /\ sinceClose' = 0
    /\ UNCHANGED <<types, labels, registered, documentTypes, typeLabels, options,
                   swap, syncVars, last>>

\* the condition of preCreateJournalEntry
injects_any(T, currentType) == currentType \in DOMAIN T
injects(T, currentType) == currentType \in DOMAIN T /\ currentType # "default"

preCreateJournalEntry(optType) ==
    /\ sinceClose < MaxCreates
    /\ LET currentType == activeType
       IN  options' = [in |-> optType,
                       type |-> IF injects(getDocumentTypes, currentType)
                                THEN currentType ELSE optType]
    /\ sinceClose' = sinceClose + 1
    /\ UNCHANGED <<activeType, types, labels, registered, documentTypes, typeLabels,
                   swap, syncVars, last>>

(***************************************************************************)
(* Sheet Swap: the createJournalEntry hook on one new document. The hook   *)
(* is an async function: it runs to its first await, and goes on when the  *)
(* awaited host operation settles.                                         *)
(***************************************************************************)

\* JavaScript's null, as the value of doc._sheet
Null == "null"

\* options.type as the createJournalEntry hook finds it
CreatedTypes == {Undefined, "base", "default", "story", "addon"}

\* the core.sheetClass flag: unset, or "journals." + cls
noFlag == << >>
sheetClass(cls) == <<"journals", cls>>

\* the sheet class a document resolves: the one its flag names, else the default
sheetOf(flag) == IF flag = noFlag THEN "JournalSheet" ELSE flag[2]

\* a new document as the hook finds it, with its default sheet; open is
\* whether that sheet is in doc.apps
newDoc(open) ==
    [sheet |-> sheetOf(noFlag), inApps |-> open, flag |-> noFlag,
     closed |-> FALSE, renders |-> 0]

\* no createJournalEntry call was made yet
noSwap ==
    [pc |-> "idle", sameUser |-> FALSE, type |-> Undefined, cls |-> Undefined,
     doc |-> newDoc(FALSE)]

\* the guard of createJournalEntry: FALSE when the hook returns at once
swaps(T, sameUser, type) == sameUser /\ type \in DOMAIN T

\* doc._sheet = null; delete doc.apps[sheet.appId]
detach(doc) == [doc EXCEPT !.sheet = Null, !.inApps = FALSE]

\* the hook up to its first await: the guard, the detachment, the class name
\* and the call of doc.setFlag
started(T, sameUser, type, open) ==
    IF swaps(T, sameUser, type)
    THEN [pc |-> "setFlag", sameUser |-> sameUser, type |-> type, cls |-> T[type],
          doc |-> detach(newDoc(open))]
    ELSE [pc |-> "returned", sameUser |-> sameUser, type |-> type, cls |-> Undefined,
          doc |-> newDoc(open)]

\* postCreateJournalEntry: story.sheet.render(true), the sheet being the one
\* the document resolves from its sheet-class preference
postCreateJournalEntry(doc) ==
    [doc EXCEPT !.sheet = sheetOf(doc.flag), !.inApps = TRUE, !.renders = @ + 1]

\* doc.setFlag has settled: the preference is written and sheet.close() is
\* called, or the rejection ends the hook
afterSetFlag_goesOn(sw, ok) ==
    IF ok THEN [sw EXCEPT !.pc = "close", !.doc.flag = sheetClass(sw.cls)]
    ELSE [sw EXCEPT !.pc = "setFlagFailed",
                    !.doc = postCreateJournalEntry([sw.doc EXCEPT !.closed = TRUE])]
afterSetFlag(sw, ok) ==
    IF ok THEN [sw EXCEPT !.pc = "close", !.doc.flag = sheetClass(sw.cls)]
    ELSE [sw EXCEPT !.pc = "setFlagFailed"]

\* sheet.close() has settled: the old sheet is closed and
\* postCreateJournalEntry runs, or the rejection ends the hook
afterClose_rendersTwice(sw, ok) ==
    [sw EXCEPT !.pc = "done",
               !.doc = postCreateJournalEntry(
                          postCreateJournalEntry([sw.doc EXCEPT !.closed = TRUE]))]
afterClose(sw, ok) ==
    IF ok THEN [sw EXCEPT !.pc = "done",
                          !.doc = postCreateJournalEntry([sw.doc EXCEPT !.closed = TRUE])]
    ELSE [sw EXCEPT !.pc = "closeFailed"]

swapFrame == UNCHANGED <<activeType, types, labels, registered, documentTypes,
                         typeLabels, options, sinceClose, syncVars, last>>

createJournalEntry(sameUser, type, open) ==
    /\ swap.pc \notin {"setFlag", "close"}
    /\ swap' = started(getDocumentTypes, sameUser, type, open)
    /\ swapFrame

setFlagSettles(ok) ==
    /\ swap.pc = "setFlag"
    /\ swap' = afterSetFlag(swap, ok)
    /\ swapFrame

closeSettles(ok) ==
    /\ swap.pc = "close"
    /\ swap' = afterClose(swap, ok)
    /\ swapFrame

(***************************************************************************)
(* Specifications                                                          *)
(***************************************************************************)

\* the state once every session has run the init hook: registerSettings,
\* new StoryTeller() and init()
Init ==
    /\ pages = [s \in Sessions |-> pagesDefault]
    /\ inbox = [s \in Sessions |-> <<>>]
    /\ emitCount = 0
    /\ fx = [set |-> FALSE, get |-> NoId, result |-> "none"]
    /\ tracked = Untracked
    /\ activeType = Undefined
    /\ types = staticTypes
    /\ labels = staticLabels
    /\ registered = registerSheets({}, staticTypes, staticLabels)
    /\ documentTypes = mergeTypeList(hostTypeList, staticTypes)
    /\ typeLabels = mergeTypeLabels(hostTypeLabels, staticLabels)
    /\ options = [in |-> Undefined, type |-> Undefined]
    /\ sinceClose = 0
    /\ swap = noSwap
    /\ last = [s \in Sessions |-> pagesDefault]

ShowToAll ==
    \E s \in Sessions, id \in Ids, page \in Pages : \E found \in Found(id) :
        showStoryByIDToAll(s, id, page, found) /\ UNCHANGED <<tracked, last>>
ShowToPlayerOnly ==
    \E s \in Sessions, id \in Ids, page \in Pages : \E found \in Found(id) :
        showStoryToPlayerOnly(s, id, page, found) /\ UNCHANGED <<tracked, last>>
DeliverEvent == \E s \in Sessions : Deliver(s) /\ UNCHANGED <<tracked, last>>
ReceiveForeign == \E s \in Sessions, data \in Foreign : Receive(s, data) /\ UNCHANGED <<tracked, last>>

Next == ShowToAll \/ ShowToPlayerOnly \/ DeliverEvent \/ ReceiveForeign

Spec == Init /\ [][Next]_vars

\* the same steps, with the history of the latest broadcast
TrackedShowToAll ==
    \E s \in Sessions, id \in Ids, page \in Pages : \E found \in Found(id) :
        /\ showStoryByIDToAll(s, id, page, found)
        /\ tracked' = IF syncsPage(page) THEN trackEmit(s, id, page) ELSE tracked
        /\ UNCHANGED last
TrackedShowToPlayerOnly ==
    \E s \in Sessions, id \in Ids, page \in Pages : \E found \in Found(id) :
        /\ showStoryToPlayerOnly(s, id, page, found)
        /\ tracked' = IF storesPage(page) THEN untrack(tracked, id) ELSE tracked
        /\ UNCHANGED last
TrackedDeliverEvent ==
    \E s \in Sessions :
        /\ Deliver(s)
        /\ tracked' = trackDeliver(tracked, s, Head(inbox[s]))
        /\ UNCHANGED last
TrackedReceiveForeign ==
    \E s \in Sessions, data \in Foreign :
        /\ Receive(s, data)
        /\ tracked' = IF ignored(data) THEN tracked ELSE untrack(tracked, data.id)
        /\ UNCHANGED last

NextTracked ==
    TrackedShowToAll \/ TrackedShowToPlayerOnly \/ TrackedDeliverEvent
        \/ TrackedReceiveForeign

SpecTracked == Init /\ [][NextTracked]_vars

\* the sessions with the history of the page-setting actions
LastShowToAll ==
    \E s \in Sessions, id \in Ids, page \in Pages, found \in BOOLEAN :
        /\ found \in Found(id)
        /\ showStoryByIDToAll(s, id, page, found)
        /\ last' = noteLocal(last, s, id, page)
        /\ UNCHANGED tracked
LastShowToPlayerOnly ==
    \E s \in Sessions, id \in Ids, page \in Pages, found \in BOOLEAN :
        /\ found \in Found(id)
        /\ showStoryToPlayerOnly(s, id, page, found)
        /\ last' = noteLocal(last, s, id, page)
        /\ UNCHANGED tracked
LastDeliverEvent ==
    \E s \in Sessions :
        /\ Deliver(s)
        /\ last' = noteRemote(last, s, Head(inbox[s]))
        /\ UNCHANGED tracked
LastReceiveForeign ==
    \E s \in Sessions, data \in Foreign :
        /\ Receive(s, data)
        /\ last' = noteRemote(last, s, data)
        /\ UNCHANGED tracked

NextLast ==
    LastShowToAll \/ LastShowToPlayerOnly \/ LastDeliverEvent \/ LastReceiveForeign

SpecLast == Init /\ [][NextLast]_vars

\* the sessions with showStoryByIDToAll calls and their events only
NextRelay == ShowToAll \/ DeliverEvent

SpecRelay == Init /\ [][NextRelay]_vars

CloseDialog ==
    \E hasForm \in BOOLEAN, hasSelect \in BOOLEAN, value \in SelectValues :
        closeDialog(hasForm, hasSelect, value)
PreCreate == \E optType \in OptionTypes : preCreateJournalEntry(optType)
RegisterAddon ==
    \E key \in AddonKeys, sheet \in AddonSheets, label \in AddonLabels :
        registerAddonSheet(key, sheet, label)

NextCreate == CloseDialog \/ PreCreate \/ RegisterAddon

SpecCreate == Init /\ [][NextCreate]_vars

CreateHook ==
    \E sameUser \in BOOLEAN, type \in CreatedTypes, open \in BOOLEAN :
        createJournalEntry(sameUser, type, open)
SetFlagSettles == \E ok \in BOOLEAN : setFlagSettles(ok)
CloseSettles == \E ok \in BOOLEAN : closeSettles(ok)

NextSwap == CreateHook \/ SetFlagSettles \/ CloseSettles \/ RegisterAddon

SpecSwap == Init /\ [][NextSwap]_vars

(***************************************************************************)
(* Properties                                                              *)
(***************************************************************************)

\* directory dir holds page for id
has(dir, id, page) == id \in DOMAIN dir /\ dir[id] = page

\* every entry of dir but the one for id is in dir2 as it was, and dir2 holds
\* no entry besides those and the one for id
othersKept(dir, dir2, id) ==
    /\ (DOMAIN dir2) \ {id} = (DOMAIN dir) \ {id}
    /\ \A k \in (DOMAIN dir) \ {id} : dir2[k] = dir[k]

\* session s runs _setPageToOpen on data, emitted by a session or not (the
\* first conjunct follows from the second: the handler looks no document up)
handles(s, data) ==
    /\ fx'.get = NoId
    /\ \/ Receive(s, data)
       \/ Deliver(s) /\ Head(inbox[s]) = data

\* C1: for every id d and every page p other than 0, one call
\* showStoryByIDToAll(d, p) leaves directory[d] = p in the calling session and
\* emits exactly one event, carrying d and p, to every other session.
C1_ShowToAllSetsAndEmitsOnce ==
    [][\A s \in Sessions, d \in Ids, p \in Pages \ {0} : \A found \in Found(d) :
        showStoryByIDToAll(s, d, p, found) =>
            /\ has(pages'[s], d, p)
            /\ emitCount' = emitCount + 1
            /\ inbox'[s] = inbox[s]
            /\ \A r \in Sessions \ {s} :
                 inbox'[r] = Append(inbox[r],
                                [action |-> "setPageToOpen", id |-> d, page |-> p])]_vars

\* C1 witness: a call for document "a" and page 2 has set the caller's entry
\* and its event waits in the other session's inbox.
C1_Witness ==
    /\ fx = [set |-> TRUE, get |-> "a", result |-> "show"]
    /\ emitCount = 1
    /\ has(pages["s1"], "a", 2)
    /\ inbox["s2"] = <<[action |-> "setPageToOpen", id |-> "a", page |-> 2]>>

\* C2: showStoryByIDToAll(d, 0) changes no directory entry and emits nothing,
\* and still looks document d up and calls show on the result.
C2_ShowToAllPageZero ==
    [][\A s \in Sessions, d \in Ids : \A found \in Found(d) :
        showStoryByIDToAll(s, d, 0, found) =>
            /\ pages' = pages
            /\ inbox' = inbox
            /\ emitCount' = emitCount
            /\ fx'.set = FALSE
            /\ fx'.get = d
            /\ fx'.result = IF found THEN "show" ELSE "TypeError"]_vars

\* C2 witness: document "a" was shown by a call with page 0 in a state where
\* the directories hold entries and an event is in flight.
C2_Witness ==
    /\ fx = [set |-> FALSE, get |-> "a", result |-> "show"]
    /\ has(pages["s1"], "a", 1)
    /\ ~("a" \in DOMAIN pages["s2"])
    /\ Len(inbox["s2"]) = 1

\* C3: when _setPageToOpen of a session receives action setPageToOpen with a
\* non-empty id d and any page p, 0 included, the session's directory ends
\* with directory[d] = p and every entry for another id as it was.
C3_RemoteSetsEntry ==
    [][\A s \in Sessions, data \in Foreign :
        (data.action = "setPageToOpen" /\ data.id # "") =>
            \/ /\ has(pages'[s], data.id, data.page)
               /\ othersKept(pages[s], pages'[s], data.id)
               /\ \A r \in Sessions \ {s} : pages'[r] = pages[r]
            \/ ~handles(s, data)]_vars

\* C3 witness: a handler has written page 0 for "a" in a directory that
\* holds an entry for another id.
C3_Witness ==
    /\ fx = [set |-> TRUE, get |-> NoId, result |-> "none"]
    /\ has(pages["s2"], "a", 0)
    /\ has(pages["s2"], "", 2)

\* C4: an event whose action is not setPageToOpen, or whose id is empty, is
\* ignored: the directories are as before and no settings write is made.
C4_IgnoredEvents ==
    [][\A s \in Sessions, data \in Foreign :
        (data.action # "setPageToOpen" \/ data.id = "") =>
            \/ pages' = pages /\ fx'.set = FALSE
            \/ ~handles(s, data)]_vars

\* C4 witness: the event of a call with the empty id was emitted, delivered
\* to the other session and ignored there.
C4_Witness ==
    /\ emitCount = 1
    /\ inbox["s2"] = <<>>
    /\ has(pages["s1"], "", 1)
    /\ DOMAIN pages["s1"] = {""}
    /\ pages["s2"] = pagesDefault
    /\ fx = [set |-> FALSE, get |-> NoId, result |-> "none"]

\* the latest broadcast has been handled by every other session, and no
\* session has had another page-setting action for its id since
Settled == tracked.on /\ \A r \in Sessions : tracked.pending[r] = 0

\* C5 as claimed: after showStoryByIDToAll(d, p) with p other than 0, for
\* every id d, the empty one included, once the event has been handled in
\* every other session with no other page-setting action for d in between,
\* every session has directory[d] = p.
C5_AllSessionsConverge ==
    Settled => \A s \in Sessions : has(pages[s], tracked.id, tracked.page)

\* C5 as amended: the same for every non-empty id d.
C5_NonEmptyIdConverges ==
    (Settled /\ tracked.id # "") =>
        \A s \in Sessions : has(pages[s], tracked.id, tracked.page)

\* C5 witness: the broadcast of page 2 for "a" is settled after an earlier
\* broadcast, and both sessions hold it.
C5_Witness ==
    /\ Settled
    /\ tracked.id = "a"
    /\ tracked.page = 2
    /\ emitCount = 2
    /\ \A s \in Sessions : has(pages[s], "a", 2)

\* C6: showStoryToPlayerOnly(d, p) emits nothing for any d and p; the only
\* directory entry it writes is the caller's entry for d, set to p (when p is
\* not 0), no other session's directory changes, and it looks document d up
\* and renders its sheet.
C6_PlayerOnlyStaysLocal ==
    [][\A s \in Sessions, d \in Ids, p \in Pages : \A found \in Found(d) :
        showStoryToPlayerOnly(s, d, p, found) =>
            /\ inbox' = inbox
            /\ emitCount' = emitCount
            /\ \A r \in Sessions \ {s} : pages'[r] = pages[r]
            /\ IF p # 0
               THEN has(pages'[s], d, p) /\ othersKept(pages[s], pages'[s], d)
               ELSE pages'[s] = pages[s]
            /\ fx'.get = d
            /\ fx'.result = IF found THEN "render" ELSE "TypeError"]_vars

\* C6 witness: a local call has stored page 1 for "a" and rendered it; no
\* event was ever emitted and the other session's directory is empty.
C6_Witness ==
    /\ fx = [set |-> TRUE, get |-> "a", result |-> "render"]
    /\ has(pages["s1"], "a", 1)
    /\ pages["s2"] = pagesDefault
    /\ emitCount = 0
    /\ \A r \in Sessions : inbox[r] = <<>>

\* C7 as claimed: when document d is not found, showStoryByIDToAll(d, p) is a
\* silent no-op for every p: no event, no directory change, no fault.
C7_MissingDocumentIsNoOp ==
    [][\A s \in Sessions, d \in Ids, p \in Pages :
        showStoryByIDToAll(s, d, p, FALSE) =>
            /\ pages' = pages
            /\ inbox' = inbox
            /\ emitCount' = emitCount
            /\ fx'.result # "TypeError"]_vars

\* C8: when a dialog closes, the slot is set to the value of the dialog's
\* select control if the dialog's element and a select control are there,
\* and to the empty string in every other case, whatever it held before.
C8_CloseDialogSetsSlot ==
    [][\A hasForm \in BOOLEAN, hasSelect \in BOOLEAN, value \in SelectValues :
        closeDialog(hasForm, hasSelect, value) =>
            activeType' = IF hasForm /\ hasSelect THEN value ELSE ""]_vars

\* C8 witness: the slot held "story", which a creation consumed, and a
\* dialog close has emptied it since.
C8_Witness ==
    /\ activeType = ""
    /\ sinceClose = 0
    /\ options.type = "story"
    /\ options.in = Undefined

\* C9: preCreateJournalEntry sets options.type to the slot's value exactly
\* when that value is a key of the registry other than "default", leaves
\* options.type as it was otherwise, and changes neither slot nor registry.
C9_PreCreateInjectsRegisteredType ==
    [][\A optType \in OptionTypes :
        preCreateJournalEntry(optType) =>
            /\ options'.type =
                 IF activeType \in DOMAIN types /\ activeType # "default"
                 THEN activeType ELSE optType
            /\ activeType' = activeType
            /\ types' = types
            /\ labels' = labels]_vars

\* C9 witness: the type of a registered addon sheet was injected over the
\* type the host had passed.
C9_Witness ==
    /\ activeType = "addon"
    /\ sinceClose = 1
    /\ options = [in |-> "base", type |-> "addon"]

\* C10 as claimed: the slot is cleared by the creation hook that reads it, so
\* a second creation with no dialog close in between gets no type injected.
C10_SecondCreationNotInjected ==
    sinceClose >= 2 => options.type = options.in

(***************************************************************************)
(* Sheet Swap claims                                                       *)
(***************************************************************************)

\* the createJournalEntry hook left the document as it found it
untouched(doc) ==
    /\ doc.sheet = "JournalSheet"
    /\ doc.flag = noFlag
    /\ ~doc.closed
    /\ doc.renders = 0

\* C11 as claimed: the hook swaps the sheet only for the requesting user and a
\* registered type other than "default"; for another user, or a type that is
\* unregistered, absent or "default", it detaches no sheet, writes no
\* sheet-class preference, closes nothing and renders nothing.
C11_SwapOnlyForCustomType ==
    (/\ swap.pc # "idle"
     /\ \/ ~swap.sameUser
        \/ swap.type \notin DOMAIN getDocumentTypes
        \/ swap.type = "default")
        => untouched(swap.doc)

\* the default sheet is detached from the document
detached(doc) == doc.sheet = Null /\ ~doc.inApps

\* C12: for the requesting user and a registered custom type the hook
\* detaches the default sheet, then writes the sheet-class preference naming
\* the class registered for that type, then closes the old sheet, then
\* renders: one render, and only after the preference write and the close.
C12_SwapInOrder ==
    /\ [](swap.pc \notin {"idle", "returned"} /\ swap.type # "default" =>
            /\ swap.pc = "setFlag" =>
                   /\ detached(swap.doc)
                   /\ swap.doc.flag = noFlag
                   /\ ~swap.doc.closed
                   /\ swap.doc.renders = 0
            /\ swap.pc = "close" =>
                   /\ detached(swap.doc)
                   /\ swap.doc.flag = sheetClass(swap.cls)
                   /\ ~swap.doc.closed
                   /\ swap.doc.renders = 0
            /\ swap.pc = "done" =>
                   /\ swap.doc.flag = sheetClass(swap.cls)
                   /\ swap.doc.closed
                   /\ swap.doc.renders = 1
                   /\ swap.doc.sheet = swap.cls
            /\ swap.doc.renders > 0 => swap.pc = "done")
    /\ [][swap'.pc = "setFlag" /\ swap.pc # "setFlag" =>
            swap'.cls = getDocumentTypes[swap'.type]]_vars

C12_Witness ==
    /\ swap.pc = "done"
    /\ swap.sameUser
    /\ swap.type = "story"
    /\ swap.doc.flag = sheetClass("StorySheet")
    /\ swap.doc.closed
    /\ swap.doc.renders = 1

\* C19: when the awaited doc.setFlag fails, the old sheet is not closed and
\* nothing is rendered, and the document stays detached from its sheet.
C19_SetFlagFailureStopsHook ==
    swap.pc = "setFlagFailed" =>
        /\ ~swap.doc.closed
        /\ swap.doc.renders = 0
        /\ swap.doc.flag = noFlag
        /\ detached(swap.doc)

C19_Witness ==
    /\ swap.pc = "setFlagFailed"
    /\ swap.type = "story"
    /\ detached(swap.doc)

(***************************************************************************)
(* Type Registry claims                                                    *)
(***************************************************************************)

\* how often key k stands in a list
RECURSIVE count(_, _)
count(list, k) ==
    IF list = <<>> THEN 0
    ELSE (IF Head(list) = k THEN 1 ELSE 0) + count(Tail(list), k)

\* C13 as claimed: after registerAddonSheet({key: k, sheet: S, label: L}) with
\* k other than "default", the registry maps k to S and the host's type-label
\* table maps k to the localized L.
C13_AddonLabelLocalized ==
    [][\A k \in AddonKeys \ {"default"}, S \in AddonSheets, L \in AddonLabels :
           registerAddonSheet(k, S, L) =>
               /\ getDocumentTypes'[k] = S
               /\ typeLabels'[k] = localize(L)]_vars

\* C13 amended: after registerAddonSheet({key: k, sheet: S, label: L}) with
\* k other than "default", the registry maps k to S and to the label L, the
\* host's type-label table maps k to L as given, and the localized L is the
\* label of the registerSheet call for k.
C13_AddonLabelAsGiven ==
    [][\A k \in AddonKeys \ {"default"}, S \in AddonSheets, L \in AddonLabels :
           registerAddonSheet(k, S, L) =>
               /\ getDocumentTypes'[k] = S
               /\ getTypeLabels'[k] = L
               /\ typeLabels'[k] = L
               /\ [key |-> k, sheet |-> S, label |-> localize(L)] \in registered']_vars

C13_Witness ==
    /\ "addon" \in DOMAIN types
    /\ types["addon"] = "AddonSheet"
    /\ typeLabels["addon"] = Label("ADDON.Entry")
    /\ [key |-> "addon", sheet |-> "AddonSheet",
        label |-> localize(Label("ADDON.Entry"))] \in registered

\* C14 as claimed: after init and any registerAddonSheet calls, the host's
\* known-type list holds no key more than once (and the type-label table,
\* being keyed, one entry per key).
C14_NoDuplicateKeys ==
    \A i, j \in 1..Len(documentTypes) :
        i # j => documentTypes[i] # documentTypes[j]

\* C15 as claimed: init and registerAddonSheet with key "default" add no
\* "default" entry to the host's known-type list or type-label table, and
\* registerAddonSheet with key "default" leaves the registry's "default"
\* sheet and label as they were.
C15_DefaultKeySkipped ==
    /\ [](count(documentTypes, "default") = 0 /\ "default" \notin DOMAIN typeLabels)
    /\ [][\A S \in AddonSheets, L \in AddonLabels :
             registerAddonSheet("default", S, L) =>
                 /\ documentTypes' = documentTypes
                 /\ typeLabels' = typeLabels
                 /\ getDocumentTypes'["default"] = getDocumentTypes["default"]
                 /\ getTypeLabels'["default"] = getTypeLabels["default"]]_vars

\* C16: registerSheet is never called for the key "default": no sheet is
\* registered as selectable under that key, whatever was registered.
C16_DefaultNeverRegistered ==
    \A r \in registered : r.key # "default"

C16_Witness ==
    /\ count(documentTypes, "default") >= 2
    /\ types["default"] = "AddonSheet"
    /\ \E r \in registered : r.key = "addon"

(***************************************************************************)
(* Page Directory claims over interleavings                                *)
(***************************************************************************)

\* C17: in each session the directory is last-writer-wins without lost
\* updates: after any interleaving of local calls and handled events,
\* directory[d] is the page of the latest page-setting action the session
\* applied for d, and every id an action was applied for has its entry.
C17_LastWriterWins ==
    \A s \in Sessions : pages[s] = last[s]

C17_Witness ==
    \E s \in Sessions :
        /\ DOMAIN last[s] = {"", "a"}
        /\ last[s]["a"] = 2
        /\ pages[s][""] = 1
        /\ emitCount = MaxEmits
        /\ inbox[s] = <<>>

\* C18: no step removes an entry of a Page Directory: the ids a session's
\* directory holds only grow.
C18_KeysOnlyGrow ==
    [][\A s \in Sessions : DOMAIN pages[s] \subseteq DOMAIN pages'[s]]_vars

C18_Witness ==
    /\ DOMAIN pages["s1"] = {"", "a"}
    /\ DOMAIN pages["s2"] = {"a"}

\* no event is in flight
Quiet == \A s \in Sessions : inbox[s] = <<>>

\* C20 as claimed: with showStoryByIDToAll calls for a document id from
\* different sessions, concurrent ones too, once every event is delivered
\* and handled all sessions hold the same page for the id.
C20_ConcurrentCallsConverge ==
    Quiet =>
        \A s, r \in Sessions :
            "a" \in DOMAIN pages[s] =>
                "a" \in DOMAIN pages[r] /\ pages[r]["a"] = pages[s]["a"]

=============================================================================
